---- MODULE Spec2Model ----
(***************************************************************************)
(* The consensus state caches of cuprate:                                  *)
(*   - BlockWeightsCache (consensus/src/block/weight.rs)                   *)
(*   - HardForkState     (consensus/src/hardforks.rs)                      *)
(* Each cache talks to the chain store through asynchronous requests; an   *)
(* ingest is split at its await point, where the store may answer, fail,   *)
(* or the caller may drop the future.                                      *)
(***************************************************************************)
EXTENDS Integers, Sequences, FiniteSets, TLC

VARIABLES
    debug_build,                \* build profile: TRUE = overflow checks and debug assertions on
    \* ---- block weight cache ----
    w_db,                       \* chain store: w_db[h + 1] = BlockWeightInfo of height h
    short_term_block_weights,   \* VecDeque<usize>
    long_term_weights,          \* Vec<usize>, kept sorted
    tip_height,                 \* u64
    w_pc,                       \* "uninit" | "idle" | "awaiting" | "stopped"
    w_result,                   \* outcome of the last call: "init", "ok", "pending", "store_error",
                                \* "cancelled" or the panic that ended it
    w_pre,                      \* cache fields when the running/last new_block_added was called
    w_call,                     \* arguments and pending request of the running new_block_added
    w_init_height,              \* chain height the cache was initialised at
    \* ---- hard-fork state ----
    hf_db,                      \* chain store: [lo, blocks], blocks[h - lo + 1] = BlockHFInfo of height h
    window,                     \* config.window
    current_hardfork,
    next_hardfork,              \* Option<HardFork> as a set with at most one element
    votes,                      \* HFVotes.votes, indexed 1..16
    last_height,
    hf_pc,                      \* "uninit" | "idle" | "awaiting" | "stopped"
    hf_result,                  \* outcome of the last call, as w_result; "no_such_block" is the
                                \* store's error for a height it holds no block of
    hf_pre,                     \* state fields when the running/last new_block was called
    hf_call,                    \* arguments and pending removals of the running new_block
    hf_init_height,             \* chain height the state was initialised at
    hf_requests,                \* heights of the BlockHFInfo requests issued by the last call
    \* ---- the functions without state ----
    q                           \* the last evaluation: [fn, the arguments, out]

wvars == <<w_db, short_term_block_weights, long_term_weights, tip_height,
           w_pc, w_result, w_pre, w_call, w_init_height>>
hfvars == <<hf_db, window, current_hardfork, next_hardfork, votes, last_height,
            hf_pc, hf_result, hf_pre, hf_call, hf_init_height, hf_requests>>
vars == <<debug_build, wvars, hfvars, q>>

(***************************************************************************)
(* Bounds of the model.                                                    *)
(***************************************************************************)
\* Block weights and long-term weights are drawn from 1..MaxWeight.
MaxWeight == 2
\* The weight chain is explored up to this chain height.
MaxHeight == 4
\* The short-term window (100 blocks in the source), scaled.
SHORT_TERM_WINDOW == 2
\* The long-term window (100000 blocks in the source), scaled.
LONG_TERM_WINDOW == 3

(***************************************************************************)
(* u64 arithmetic.  The only value above the modelled heights that the     *)
(* code can produce is u64::MAX (0 - 1 without overflow checks); it is     *)
(* represented by its two's-complement representative.                     *)
(***************************************************************************)
U64MAX == 0 - 1

\* a - 1 on u64: wraps without overflow checks, panics with them.
sub_one_overflows(a) == a = 0
wrapping_sub_one(a) == IF a = 0 THEN U64MAX ELSE a - 1
\* a + 1 on u64.
add_one_overflows(a) == a = U64MAX
wrapping_add_one(a) == IF a = U64MAX THEN 0 ELSE a + 1

saturating_sub(a, b) == IF a >= b THEN a - b ELSE 0
\* Option<u64> as a set with at most one element.
checked_sub(a, b) == IF a >= b THEN {a - b} ELSE {}

(***************************************************************************)
(* Sequences.                                                              *)
(***************************************************************************)
IsSorted(s) == \A i \in 1..(Len(s) - 1) : s[i] <= s[i + 1]

\* Vec::insert(idx, x), idx 0-based.
InsertAt(s, idx, x) == SubSeq(s, 1, idx) \o <<x>> \o SubSeq(s, idx + 1, Len(s))
\* Mutant: every element equal to the one at idx is removed.
RemoveAllEqual(s, idx) == SelectSeq(s, LAMBDA x : x # s[idx + 1])

\* Vec::remove(idx), idx 0-based.
RemoveAt(s, idx) == SubSeq(s, 1, idx) \o SubSeq(s, idx + 2, Len(s))

\* slice::binary_search on a sorted slice: Ok(idx) for any idx holding x
\* ("if there are multiple matches, then any one of the matches could be
\* returned"), otherwise Err(idx) with idx the insertion point.
binary_search_ok(s, x) == {i - 1 : i \in {j \in 1..Len(s) : s[j] = x}}
binary_search_err(s, x) == Cardinality({j \in 1..Len(s) : s[j] < x})

\* slice::sort_unstable, as an insertion sort.
RECURSIVE sort_unstable(_)
sort_unstable(s) ==
    IF Len(s) = 0 THEN <<>>
    ELSE LET rest == sort_unstable(Tail(s))
         IN InsertAt(rest, binary_search_err(rest, Head(s)), Head(s))

(***************************************************************************)
(* Chain store, block weights.                                             *)
(***************************************************************************)
BlockWeightInfo == [block_weight : 1..MaxWeight, long_term_weight : 1..MaxWeight]

\* DatabaseRequest::BlockWeightsInRange(lo..hi)
BlockWeightsInRange(db, lo, hi) == [i \in 1..(hi - lo) |-> db[lo + i]]
\* DatabaseRequest::BlockWeights(height)
BlockWeights(db, height) == db[height + 1]

get_blocks_weight_in_range(db, lo, hi) ==
    LET weights == BlockWeightsInRange(db, lo, hi)
    IN [i \in 1..Len(weights) |-> weights[i].block_weight]

get_long_term_weight_in_range(db, lo, hi) ==
    LET weights == BlockWeightsInRange(db, lo, hi)
    IN [i \in 1..Len(weights) |-> weights[i].long_term_weight]

(***************************************************************************)
(* BlockWeightsCache                                                       *)
(***************************************************************************)
\* The fields init_from_chain_height builds, tip_height aside.
init_long_term_weights(db, chain_height) ==
    sort_unstable(get_long_term_weight_in_range(
        db, saturating_sub(chain_height, LONG_TERM_WINDOW), chain_height))

init_short_term_block_weights(db, chain_height) ==
    get_blocks_weight_in_range(
        db, saturating_sub(chain_height, SHORT_TERM_WINDOW), chain_height)

\* Mutant: the new long-term weight is pushed at the back.
long_term_insert_idx_back(s, x) == {Len(s)}

\* The indices at which new_block_added may insert the new long-term weight.
long_term_insert_idx(s, x) ==
    IF binary_search_ok(s, x) # {} THEN binary_search_ok(s, x)
    ELSE {binary_search_err(s, x)}

\* Mutant: the smallest weight is evicted instead of the oldest.
short_term_push_pop_smallest(s, block_weight) ==
    LET pushed == Append(s, block_weight)
        least == CHOOSE i \in 1..Len(pushed) :
                     \A j \in 1..Len(pushed) :
                         pushed[i] < pushed[j] \/ (pushed[i] = pushed[j] /\ i <= j)
    IN IF Len(pushed) > SHORT_TERM_WINDOW THEN RemoveAt(pushed, least - 1) ELSE pushed

\* Mutant: the pop_front is forgotten.
short_term_push_no_pop(s, block_weight) == Append(s, block_weight)

\* short_term_block_weights after push_back and the conditional pop_front.
short_term_push(s, block_weight) ==
    LET pushed == Append(s, block_weight)
    IN IF Len(pushed) > SHORT_TERM_WINDOW THEN Tail(pushed) ELSE pushed

\* Mutant: the eviction starts one block late.
long_term_height_to_remove_late(block_height) ==
    checked_sub(block_height, LONG_TERM_WINDOW + 1)

\* The height whose long-term weight leaves the window when block_height is added.
long_term_height_to_remove(block_height) == checked_sub(block_height, LONG_TERM_WINDOW)

WCache == [short_term |-> short_term_block_weights,
           long_term |-> long_term_weights,
           tip_height |-> tip_height]

NoWCall == [block_height |-> 0, block_weight |-> 0, long_term_weight |-> 0,
            height_to_remove |-> 0, requests |-> {}]

\* assert_eq!(self.tip_height + 1, block_height) fails, or tip_height + 1 overflows.
tip_height_assertion_fails(tip, block_height) ==
    \/ add_one_overflows(tip) /\ debug_build
    \/ wrapping_add_one(tip) # block_height

\* init_from_chain_height at the chain store's height.
WInitFromChainHeight ==
    /\ w_pc = "uninit"
    /\ LET chain_height == Len(w_db)
       IN /\ w_init_height' = chain_height
          /\ \E db_ok \in BOOLEAN :
               IF ~db_ok
               THEN \* a range request failed: no cache is built
                    /\ w_pc' = "stopped"
                    /\ w_result' = "store_error"
                    /\ UNCHANGED <<short_term_block_weights, long_term_weights, tip_height>>
               ELSE IF sub_one_overflows(chain_height) /\ debug_build
               THEN \* chain_height - 1 panics
                    /\ w_pc' = "stopped"
                    /\ w_result' = "panic:overflow"
                    /\ UNCHANGED <<short_term_block_weights, long_term_weights, tip_height>>
               ELSE /\ long_term_weights' = init_long_term_weights(w_db, chain_height)
                    /\ short_term_block_weights' =
                           init_short_term_block_weights(w_db, chain_height)
                    /\ tip_height' = wrapping_sub_one(chain_height)
                    /\ w_pc' = "idle"
                    /\ w_result' = "init"
    /\ UNCHANGED <<w_db, w_pre, w_call, debug_build, hfvars, q>>

\* new_block_added up to its await point (or to its end when nothing is evicted).
WNewBlockAdded ==
    /\ w_pc = "idle"
    /\ Len(w_db) < MaxHeight
    /\ \E block_height \in {h \in {Len(w_db) - 1, Len(w_db), Len(w_db) + 1} : h >= 0},
          info \in BlockWeightInfo :
         /\ w_pre' = WCache
         /\ IF tip_height_assertion_fails(tip_height, block_height)
            THEN \* assert_eq!(self.tip_height + 1, block_height)
                 /\ w_pc' = "stopped"
                 /\ w_result' = "panic:height_order"
                 /\ w_call' = [block_height |-> block_height,
                                block_weight |-> info.block_weight,
                                long_term_weight |-> info.long_term_weight,
                                height_to_remove |-> 0, requests |-> {}]
                 /\ UNCHANGED <<w_db, short_term_block_weights, long_term_weights,
                                tip_height>>
            ELSE /\ tip_height' = wrapping_add_one(tip_height)
                 /\ \E idx \in long_term_insert_idx(long_term_weights, info.long_term_weight) :
                      long_term_weights' =
                          InsertAt(long_term_weights, idx, info.long_term_weight)
                 /\ IF long_term_height_to_remove(block_height) # {}
                    THEN /\ w_call' = [block_height |-> block_height,
                                       block_weight |-> info.block_weight,
                                       long_term_weight |-> info.long_term_weight,
                                       height_to_remove |->
                                           CHOOSE h \in long_term_height_to_remove(block_height) : TRUE,
                                       requests |-> long_term_height_to_remove(block_height)]
                         /\ w_pc' = "awaiting"
                         /\ w_result' = "pending"
                         /\ UNCHANGED <<w_db, short_term_block_weights>>
                    ELSE /\ short_term_block_weights' =
                                short_term_push(short_term_block_weights, info.block_weight)
                         /\ w_db' = Append(w_db, info)
                         /\ w_pc' = "idle"
                         /\ w_result' = "ok"
                         /\ w_call' = [block_height |-> block_height,
                                        block_weight |-> info.block_weight,
                                        long_term_weight |-> info.long_term_weight,
                                        height_to_remove |-> 0, requests |-> {}]
    /\ UNCHANGED <<w_init_height, debug_build, hfvars, q>>

\* The store answers the BlockWeights request; new_block_added runs to its end.
WBlockWeightsResponse ==
    /\ w_pc = "awaiting"
    /\ LET weights == BlockWeights(w_db, w_call.height_to_remove)
           found == binary_search_ok(long_term_weights, weights.long_term_weight)
       IN IF found = {}
          THEN \* .expect("Weight must be in list if in the window")
               /\ w_pc' = "stopped"
               /\ w_result' = "panic:expect"
               /\ UNCHANGED <<w_db, short_term_block_weights, long_term_weights>>
          ELSE /\ \E idx \in found : long_term_weights' = RemoveAt(long_term_weights, idx)
               /\ short_term_block_weights' =
                      short_term_push(short_term_block_weights, w_call.block_weight)
               /\ w_db' = Append(w_db, [block_weight |-> w_call.block_weight,
                                        long_term_weight |-> w_call.long_term_weight])
               /\ w_pc' = "idle"
               /\ w_result' = "ok"
    /\ UNCHANGED <<tip_height, w_pre, w_call, w_init_height, debug_build, hfvars, q>>

\* The store answers the BlockWeights request with an error: `.await?` returns it.
WBlockWeightsError ==
    /\ w_pc = "awaiting"
    /\ w_pc' = "stopped"
    /\ w_result' = "store_error"
    /\ UNCHANGED <<w_db, short_term_block_weights, long_term_weights, tip_height,
                   w_pre, w_call, w_init_height, debug_build, hfvars, q>>

\* The caller drops the new_block_added future while it awaits the store.
WCancelled ==
    /\ w_pc = "awaiting"
    /\ w_pc' = "stopped"
    /\ w_result' = "cancelled"
    /\ UNCHANGED <<w_db, short_term_block_weights, long_term_weights, tip_height,
                   w_pre, w_call, w_init_height, debug_build, hfvars, q>>

(***************************************************************************)
(* HardFork                                                                *)
(***************************************************************************)
HardFork == 1..16

\* HardFork::from_version(..).ok(): Option<HardFork> as a set.
from_version(version) == IF version \in HardFork THEN {version} ELSE {}

\* Mutant: a vote of 0 is not special-cased.
from_vote_no_zero_case(vote) ==
    IF from_version(vote) # {} THEN CHOOSE v \in from_version(vote) : TRUE ELSE 16

\* HardFork::from_vote: 0 is V1, an unknown version the latest fork.
from_vote(vote) ==
    IF vote = 0 THEN 1
    ELSE IF from_version(vote) # {} THEN CHOOSE v \in from_version(vote) : TRUE ELSE 16

\* BlockHFInfo::from_major_minor: Err(InvalidHardForkVersion) or the BlockHFInfo.
from_major_minor(major_version, minor_version) ==
    IF from_version(major_version) = {}
    THEN [err |-> TRUE, version |-> 0, vote |-> 0]
    ELSE [err |-> FALSE,
          version |-> CHOOSE v \in from_version(major_version) : TRUE,
          vote |-> from_vote(minor_version)]

next_fork(hf) == from_version(hf + 1)

\* Mutant: the end of the range is included.
in_range_inclusive(hf, start, end) == start <= hf /\ hf <= end

\* HardFork::in_range: start <= hf < end
in_range(hf, start, end) == start <= hf /\ hf < end

\* "No Monero hard forks actually use voting"
fork_threshold(hf, network) == 0

votes_needed(hf, network, win) == (fork_threshold(hf, network) * win + 99) \div 100

\* Mutant: the digits of V2's height are transposed.
mainnet_fork_height_v2_typo(hf) ==
    CASE hf = 1 -> 0
      [] hf = 2 -> 1009872
      [] hf = 3 -> 1141317
      [] hf = 4 -> 1220516
      [] hf = 5 -> 1288616
      [] hf = 6 -> 1400000
      [] hf = 7 -> 1546000
      [] hf = 8 -> 1685555
      [] hf = 9 -> 1686275
      [] hf = 10 -> 1788000
      [] hf = 11 -> 1788720
      [] hf = 12 -> 1978433
      [] hf = 13 -> 2210000
      [] hf = 14 -> 2210720
      [] hf = 15 -> 2688888
      [] hf = 16 -> 2689608

mainnet_fork_height(hf) ==
    CASE hf = 1 -> 0
      [] hf = 2 -> 1009827
      [] hf = 3 -> 1141317
      [] hf = 4 -> 1220516
      [] hf = 5 -> 1288616
      [] hf = 6 -> 1400000
      [] hf = 7 -> 1546000
      [] hf = 8 -> 1685555
      [] hf = 9 -> 1686275
      [] hf = 10 -> 1788000
      [] hf = 11 -> 1788720
      [] hf = 12 -> 1978433
      [] hf = 13 -> 2210000
      [] hf = 14 -> 2210720
      [] hf = 15 -> 2688888
      [] hf = 16 -> 2689608

\* Only the mainnet table exists (the others are todo!()); config.network is Mainnet.
Mainnet == "Mainnet"
fork_height(hf, network) == mainnet_fork_height(hf)

\* a >= b on u64, negative integers standing for the wrapped values above 2^63.
u64_ge(a, b) == IF (a < 0) = (b < 0) THEN a >= b ELSE a < 0

(***************************************************************************)
(* HFVotes                                                                 *)
(***************************************************************************)
NoVotes == [v \in HardFork |-> 0]

add_vote_for_hf(vs, hf) == [vs EXCEPT ![hf] = @ + 1]

\* votes[hf - 1] -= 1 panics on underflow with overflow checks, wraps without.
remove_vote_underflows(vs, hf) == vs[hf] = 0
remove_vote_for_hf(vs, hf) == [vs EXCEPT ![hf] = @ - 1]

\* Iterator::sum over a slice.
RECURSIVE iter_sum(_)
iter_sum(slice) == IF Len(slice) = 0 THEN 0 ELSE Head(slice) + iter_sum(Tail(slice))

\* Mutant: only the bucket of hf itself is counted.
votes_for_hf_exact(vs, hf) == vs[hf]

\* self.votes[*hf as usize - 1..].iter().sum()
votes_for_hf(vs, hf) == iter_sum(SubSeq(vs, hf, Len(vs)))

\* self.votes.iter().sum()
total_votes(vs) == iter_sum(vs)

(***************************************************************************)
(* Chain store, hard-fork info.  Every stored block was validated: its     *)
(* version is the fork in force at its height and its vote is not below.   *)
(***************************************************************************)
\* The number of blocks added after init that the model explores.
MaxBlocks == 3
\* config.window ranges over 1..MaxWindow.
MaxWindow == 3

\* Chain heights at which the hard-fork state is initialised.
HFInitHeights == {0, 1, 2, 3, 4, 1009825, 1009826, 1009827, 2689607}

\* The fork in force for the block at `height`.
ValidVersion(height) ==
    CHOOSE v \in HardFork :
        /\ fork_height(v, Mainnet) <= height
        /\ \A u \in HardFork : fork_height(u, Mainnet) <= height => u <= v

\* The votes a valid block of `version` carries in the model.
VoteChoices(version) == {v \in {version, version + 1} : v \in HardFork}

hf_chain_height(db) == db.lo + Len(db.blocks)
hf_block_exists(db, height) == db.lo <= height /\ height < hf_chain_height(db)

\* DatabaseRequest::BlockHFInfo(height)
BlockHFInfo(db, height) == db.blocks[height - db.lo + 1]
\* DatabaseRequest::BlockHfInfoInRange(lo..hi)
BlockHfInfoInRange(db, lo, hi) == [i \in 1..(hi - lo) |-> BlockHFInfo(db, lo + i - 1)]

RECURSIVE TallyVotes(_, _)
TallyVotes(vs, vote_list) ==
    IF Len(vote_list) = 0 THEN vs
    ELSE TallyVotes(add_vote_for_hf(vs, Head(vote_list).vote), Tail(vote_list))

get_votes_in_range(db, lo, hi) == TallyVotes(NoVotes, BlockHfInfoInRange(db, lo, hi))

(***************************************************************************)
(* HardForkState                                                           *)
(***************************************************************************)
HFState == [current_hardfork |-> current_hardfork,
            next_hardfork |-> next_hardfork,
            votes |-> votes,
            last_height |-> last_height]

\* Mutant: the height of the last block is compared, not the next block's.
activates_at_last_height(new_hf, lh, vs, win) ==
    /\ lh >= fork_height(new_hf, Mainnet)
    /\ u64_ge(votes_for_hf(vs, new_hf), votes_needed(new_hf, Mainnet, win))

\* The condition under which check_set_new_hf activates new_hf.
activates(new_hf, lh, vs, win) ==
    /\ lh + 1 >= fork_height(new_hf, Mainnet)
    /\ u64_ge(votes_for_hf(vs, new_hf), votes_needed(new_hf, Mainnet, win))

\* Mutant: `if let` for `while let`, a single activation per call.
check_set_new_hf_once(cur, nxt, lh, vs, win) ==
    IF nxt = {} THEN [current_hardfork |-> cur, next_hardfork |-> nxt]
    ELSE LET new_hf == CHOOSE v \in nxt : TRUE
         IN IF activates(new_hf, lh, vs, win)
            THEN [current_hardfork |-> new_hf, next_hardfork |-> next_fork(new_hf)]
            ELSE [current_hardfork |-> cur, next_hardfork |-> nxt]

\* Mutant: a current fork that not every vote of the window supports is rolled back.
check_set_new_hf_needs_support(cur, nxt, lh, vs, win) ==
    IF cur > 1 /\ votes_for_hf(vs, cur) < total_votes(vs)
    THEN [current_hardfork |-> cur - 1, next_hardfork |-> {cur}]
    ELSE check_set_new_hf_once(cur, nxt, lh, vs, win)

\* check_set_new_hf with set_hf: the loop runs while the next fork activates.
RECURSIVE check_set_new_hf(_, _, _, _, _)
check_set_new_hf(cur, nxt, lh, vs, win) ==
    IF nxt = {} THEN [current_hardfork |-> cur, next_hardfork |-> nxt]
    ELSE LET new_hf == CHOOSE v \in nxt : TRUE
         IN IF activates(new_hf, lh, vs, win)
            THEN check_set_new_hf(new_hf, next_fork(new_hf), lh, vs, win)
            ELSE [current_hardfork |-> cur, next_hardfork |-> nxt]

\* The block start of the vote range init_from_chain_height requests.
init_block_start(chain_height, win) == saturating_sub(chain_height, win)

\* Mutant: the range of offsets starts one too high.
heights_to_remove_skip_first(win, total, height) ==
    [i \in 1..(IF total > win + 1 THEN total - win - 1 ELSE 0) |-> height - (win + i)]

\* Mutant: the height is taken for the number of blocks, one above the last height.
heights_to_remove_from_count(win, total, height) ==
    [i \in 1..(IF total > win THEN total - win ELSE 0) |-> height - 1 - (win + i - 1)]

\* The heights new_block removes from the window, in request order:
\* (window..total_votes).map(|offset| height - offset)
heights_to_remove(win, total, height) ==
    [i \in 1..(IF total > win THEN total - win ELSE 0) |-> height - (win + i - 1)]

\* debug_assert_eq!(votes.total_votes(), config.window) under its `if`.
window_assertion_fails(height, vs, win) ==
    debug_build /\ height > win /\ total_votes(vs) # win

NoHFCall == [called |-> FALSE, vote |-> 1, height |-> 0, to_remove |-> <<>>]

\* Mutant: the assertion only asks for a height above the last one.
last_height_assertion_above(last, height) == ~(height > last)

\* assert_eq!(self.last_height + 1, height) fails, or last_height + 1 overflows.
last_height_assertion_fails(last, height) ==
    \/ add_one_overflows(last) /\ debug_build
    \/ wrapping_add_one(last) # height

\* The HardForkState init_from_chain_height returns for a chain of at least one block.
init_hard_fork_state(db, chain_height, win) ==
    LET vs == get_votes_in_range(db, init_block_start(chain_height, win), chain_height)
        hf_info == BlockHFInfo(db, chain_height - 1)
        hfs == check_set_new_hf(hf_info.version, next_fork(hf_info.version),
                                chain_height - 1, vs, win)
    IN [current_hardfork |-> hfs.current_hardfork,
        next_hardfork |-> hfs.next_hardfork,
        votes |-> vs,
        last_height |-> chain_height - 1]

\* init_from_chain_height at the chain store's height.
HFInitFromChainHeight ==
    /\ hf_pc = "uninit"
    /\ LET chain_height == hf_chain_height(hf_db)
           block_start == init_block_start(chain_height, window)
           vs == get_votes_in_range(hf_db, block_start, chain_height)
           top == wrapping_sub_one(chain_height)
       IN /\ hf_init_height' = chain_height
          /\ \E db_ok \in BOOLEAN :
               IF ~db_ok
               THEN \* the range request failed
                    /\ hf_pc' = "stopped"
                    /\ hf_result' = "store_error"
                    /\ hf_requests' = {}
                    /\ UNCHANGED <<current_hardfork, next_hardfork, votes, last_height>>
               ELSE IF window_assertion_fails(chain_height, vs, window)
               THEN \* debug_assert_eq!(votes.total_votes(), config.window)
                    /\ hf_pc' = "stopped"
                    /\ hf_result' = "panic:debug_assert"
                    /\ hf_requests' = {}
                    /\ UNCHANGED <<current_hardfork, next_hardfork, votes, last_height>>
               ELSE IF sub_one_overflows(chain_height) /\ debug_build
               THEN \* chain_height - 1 panics
                    /\ hf_pc' = "stopped"
                    /\ hf_result' = "panic:overflow"
                    /\ hf_requests' = {}
                    /\ UNCHANGED <<current_hardfork, next_hardfork, votes, last_height>>
               ELSE IF ~hf_block_exists(hf_db, top)
               THEN \* BlockHFInfo(chain_height - 1) names no block: the store fails
                    /\ hf_pc' = "stopped"
                    /\ hf_result' = "no_such_block"
                    /\ hf_requests' = {top}
                    /\ UNCHANGED <<current_hardfork, next_hardfork, votes, last_height>>
               ELSE LET hfs == init_hard_fork_state(hf_db, chain_height, window)
                    IN /\ current_hardfork' = hfs.current_hardfork
                       /\ next_hardfork' = hfs.next_hardfork
                       /\ votes' = hfs.votes
                       /\ last_height' = hfs.last_height
                       /\ hf_requests' = {top}
                       /\ hf_pc' = "idle"
                       /\ hf_result' = "init"
    /\ UNCHANGED <<hf_db, window, hf_pre, hf_call, debug_build, wvars, q>>

\* The end of new_block once every vote that left the window is removed.
HFFinish(vs, lh, version, vote, height) ==
    IF window_assertion_fails(height, vs, window)
    THEN /\ hf_pc' = "stopped"
         /\ hf_result' = "panic:debug_assert"
         /\ votes' = vs
         /\ UNCHANGED <<current_hardfork, next_hardfork, hf_db>>
    ELSE LET hfs == check_set_new_hf(current_hardfork, next_hardfork, lh, vs, window)
         IN /\ current_hardfork' = hfs.current_hardfork
            /\ next_hardfork' = hfs.next_hardfork
            /\ votes' = vs
            /\ hf_db' = [hf_db EXCEPT !.blocks =
                            Append(@, [version |-> version, vote |-> vote])]
            /\ hf_pc' = "idle"
            /\ hf_result' = "ok"

\* new_block up to its first await point (or to its end when nothing left the window).
\* The block was accepted by check_block_version_vote before it is handed over.
HFNewBlock ==
    /\ hf_pc = "idle"
    /\ hf_chain_height(hf_db) - hf_init_height < MaxBlocks
    /\ \E height \in {last_height, last_height + 1, last_height + 2},
          vote \in VoteChoices(current_hardfork) :
         /\ hf_pre' = HFState
         /\ IF last_height_assertion_fails(last_height, height)
            THEN \* assert_eq!(self.last_height + 1, height)
                 /\ hf_pc' = "stopped"
                 /\ hf_result' = "panic:height_order"
                 /\ hf_requests' = {}
                 /\ hf_call' = [called |-> TRUE, vote |-> vote, height |-> height,
                                 to_remove |-> <<>>]
                 /\ UNCHANGED <<hf_db, current_hardfork, next_hardfork, votes,
                                last_height>>
            ELSE LET vs == add_vote_for_hf(votes, vote)
                     to_remove == heights_to_remove(window, total_votes(vs), height)
                 IN /\ last_height' = last_height + 1
                    /\ IF Len(to_remove) = 0
                       THEN /\ HFFinish(vs, last_height + 1, current_hardfork, vote, height)
                            /\ hf_requests' = {}
                            /\ hf_call' = [called |-> TRUE, vote |-> vote, height |-> height,
                                            to_remove |-> to_remove]
                       ELSE /\ votes' = vs
                            /\ hf_call' = [called |-> TRUE, vote |-> vote, height |-> height,
                                            to_remove |-> to_remove]
                            /\ hf_requests' = {Head(to_remove)}
                            /\ hf_pc' = "awaiting"
                            /\ hf_result' = "pending"
                            /\ UNCHANGED <<hf_db, current_hardfork, next_hardfork>>
    /\ UNCHANGED <<window, hf_init_height, debug_build, wvars, q>>

\* The store answers the pending BlockHFInfo request; new_block runs on to its
\* next request or to its end.
HFBlockHFInfoResponse ==
    /\ hf_pc = "awaiting"
    /\ hf_block_exists(hf_db, Head(hf_call.to_remove))
    /\ LET hf_info == BlockHFInfo(hf_db, Head(hf_call.to_remove))
           rest == Tail(hf_call.to_remove)
           vs == remove_vote_for_hf(votes, hf_info.vote)
       IN IF remove_vote_underflows(votes, hf_info.vote) /\ debug_build
          THEN /\ hf_pc' = "stopped"
               /\ hf_result' = "panic:overflow"
               /\ UNCHANGED <<hf_db, current_hardfork, next_hardfork, votes,
                              hf_call, hf_requests>>
          ELSE IF Len(rest) = 0
          THEN /\ HFFinish(vs, last_height, hf_pre.current_hardfork, hf_call.vote, hf_call.height)
               /\ UNCHANGED <<hf_call, hf_requests>>
          ELSE /\ votes' = vs
               /\ hf_call' = [hf_call EXCEPT !.to_remove = rest]
               /\ hf_requests' = hf_requests \cup {Head(rest)}
               /\ UNCHANGED <<hf_db, current_hardfork, next_hardfork, hf_pc, hf_result>>
    /\ UNCHANGED <<window, last_height, hf_pre, hf_init_height, debug_build, wvars, q>>

\* The store answers the pending BlockHFInfo request with an error: `.await?` returns it.
HFBlockHFInfoError ==
    /\ hf_pc = "awaiting"
    /\ hf_pc' = "stopped"
    /\ hf_result' = "store_error"
    /\ UNCHANGED <<hf_db, window, current_hardfork, next_hardfork, votes, last_height,
                   hf_pre, hf_call, hf_init_height, hf_requests, debug_build, wvars, q>>

\* The caller drops the new_block future while it awaits the store.
HFCancelled ==
    /\ hf_pc = "awaiting"
    /\ hf_pc' = "stopped"
    /\ hf_result' = "cancelled"
    /\ UNCHANGED <<hf_db, window, current_hardfork, next_hardfork, votes, last_height,
                   hf_pre, hf_call, hf_init_height, hf_requests, debug_build, wvars, q>>

(***************************************************************************)
(* Block weight calculations                                               *)
(***************************************************************************)
PENALTY_FREE_ZONE_1 == 20000

PENALTY_FREE_ZONE_2 == 60000

PENALTY_FREE_ZONE_5 == 300000

\* The width of usize, scaled down from 64 bits.
USIZE_BITS == 29

USIZE_MAX == 2 ^ USIZE_BITS - 1

\* A usize result of wrapping arithmetic.
usize_wrap(x) == x % (USIZE_MAX + 1)

usize_max(a, b) == IF a >= b THEN a ELSE b

usize_min(a, b) == IF a <= b THEN a ELSE b

\* penalty_free_zone(hf)
penalty_free_zone(hf) ==
    IF hf = 1 THEN PENALTY_FREE_ZONE_1
    ELSE IF in_range(hf, 2, 5) THEN PENALTY_FREE_ZONE_2
    ELSE PENALTY_FREE_ZONE_5

\* Mutant: the textbook midpoint (a + b) / 2.
get_mid_terms_naive(a, b) ==
    [raw |-> {a + b}, value |-> usize_wrap(a + b) \div 2]

\* The arithmetic of get_mid: raw holds every intermediate result before it is
\* reduced to a usize, value is what the expression evaluates to when the
\* reductions wrap. An intermediate result outside 0..USIZE_MAX is an overflow,
\* which panics in a build with overflow checks.
get_mid_terms(a, b) ==
    LET half_a == a \div 2
        half_b == b \div 2
        halves == half_a + half_b
        twice_a == 2 * half_a
        twice_b == 2 * half_b
        rem_a == a - usize_wrap(twice_a)
        rem_b == b - usize_wrap(twice_b)
        rems == usize_wrap(rem_a) + usize_wrap(rem_b)
        carry == usize_wrap(rems) \div 2
        total == usize_wrap(halves) + carry
    IN [raw |-> {half_a, half_b, halves, twice_a, twice_b, rem_a, rem_b, rems, carry, total},
        value |-> usize_wrap(total)]

get_mid(a, b) == get_mid_terms(a, b).value

get_mid_overflows(a, b) == \E x \in get_mid_terms(a, b).raw : x < 0 \/ x > USIZE_MAX

\* median of a non-empty sorted slice; array[i] of the source is array[i + 1] here.
median(array) ==
    LET mid == Len(array) \div 2
    IN IF Len(array) = 1 THEN array[1]
       ELSE IF Len(array) % 2 = 0 THEN get_mid(array[mid], array[mid + 1])
       ELSE array[mid + 1]

\* Whether median's call of get_mid overflows.
median_overflows(array) ==
    /\ Len(array) # 1
    /\ Len(array) % 2 = 0
    /\ get_mid_overflows(array[Len(array) \div 2], array[Len(array) \div 2 + 1])

calculate_effective_median_block_weight(hf, sorted_short_term_window, sorted_long_term_window) ==
    IF in_range(hf, 1, 10) THEN median(sorted_short_term_window)
    ELSE LET long_term_median == usize_max(median(sorted_long_term_window), PENALTY_FREE_ZONE_5)
             short_term_median == median(sorted_short_term_window)
             effective_median ==
                 IF in_range(hf, 10, 15)
                 THEN usize_min(usize_max(PENALTY_FREE_ZONE_5, short_term_median),
                                50 * long_term_median)
                 ELSE usize_min(usize_max(long_term_median, short_term_median),
                                50 * long_term_median)
         IN usize_max(effective_median, penalty_free_zone(hf))

\* Mutant: the fraction is evaluated before the product.
calculate_block_long_term_weight_fraction_first(hf, block_weight, sorted_long_term_window) ==
    IF in_range(hf, 1, 10) THEN block_weight
    ELSE LET long_term_median ==
                 usize_max(penalty_free_zone(hf), median(sorted_long_term_window))
         IN IF in_range(hf, 10, 15)
            THEN usize_min(long_term_median + long_term_median * (2 \div 5), block_weight)
            ELSE usize_min(long_term_median + long_term_median * (7 \div 10),
                           usize_max(block_weight, long_term_median * (10 \div 17)))

calculate_block_long_term_weight(hf, block_weight, sorted_long_term_window) ==
    IF in_range(hf, 1, 10) THEN block_weight
    ELSE LET long_term_median ==
                 usize_max(penalty_free_zone(hf), median(sorted_long_term_window))
         IN IF in_range(hf, 10, 15)
            THEN usize_min(long_term_median + (long_term_median * 2) \div 5, block_weight)
            ELSE usize_min(long_term_median + (long_term_median * 7) \div 10,
                           usize_max(block_weight, (long_term_median * 10) \div 17))

\* BlockWeightsCache::next_block_long_term_weight on a cache with these long_term_weights.
next_block_long_term_weight(long_term, hf, block_weight) ==
    calculate_block_long_term_weight(hf, block_weight, long_term)

\* BlockWeightsCache::effective_median_block_weight: the short-term window is
\* cloned and sorted, the long-term window is kept sorted by the cache.
effective_median_block_weight(short_term, long_term, hf) ==
    calculate_effective_median_block_weight(hf, sort_unstable(short_term), long_term)

\* Mutant: twice the plain median of the short-term window.
next_block_weight_limit_plain_median(short_term, long_term, hf) ==
    2 * median(sort_unstable(short_term))

\* BlockWeightsCache::next_block_weight_limit
next_block_weight_limit(short_term, long_term, hf) ==
    2 * effective_median_block_weight(short_term, long_term, hf)

\* Mutant: the window itself is sorted, not a clone of it.
effective_median_block_weight_call_in_place(short_term, long_term, hf) ==
    [short_term_block_weights |-> sort_unstable(short_term),
     value |-> calculate_effective_median_block_weight(
                   hf, sort_unstable(short_term), long_term)]

\* A call of effective_median_block_weight(&self, hf): the short-term window
\* after the call and the value returned. The sort works on a clone.
effective_median_block_weight_call(short_term, long_term, hf) ==
    LET sorted_short_term_weights == sort_unstable(short_term)
    IN [short_term_block_weights |-> short_term,
        value |-> calculate_effective_median_block_weight(
                      hf, sorted_short_term_weights, long_term)]

\* The caller asks an initialised cache for the effective median (directly or
\* through next_block_weight_limit); the value goes to the caller.
WEffectiveMedianBlockWeight ==
    /\ w_pc = "idle"
    /\ Len(short_term_block_weights) > 0
    /\ Len(long_term_weights) > 0
    /\ \E hf \in HardFork :
         short_term_block_weights' =
             effective_median_block_weight_call(
                 short_term_block_weights, long_term_weights, hf).short_term_block_weights
    /\ UNCHANGED <<w_db, long_term_weights, tip_height, w_pc, w_result, w_pre, w_call,
                   w_init_height, debug_build, hfvars, q>>

\* Mutant: the vote must be above the current fork.
check_block_version_vote_above(cur, block_hf_info) ==
    cur = block_hf_info.version /\ block_hf_info.vote > cur

\* HardForkState::check_block_version_vote on a state whose current fork is cur.
check_block_version_vote(cur, block_hf_info) ==
    cur = block_hf_info.version /\ block_hf_info.vote >= cur

(***************************************************************************)
(* The functions without state, applied to arguments drawn from small sets. *)
(***************************************************************************)
NoQuery == [fn |-> "none"]

\* The vote counters are explored up to this many votes.
MaxVotes == 3

\* u8
U8 == 0..255

\* last_height values around the fork heights.
QHeights == {0, 1009825, 1009826, 1141316, 1686274, 1788719, 2689607, 2689608}

\* Vote counters handed to check_set_new_hf.
QVotes == {NoVotes, add_vote_for_hf(NoVotes, 1), add_vote_for_hf(NoVotes, 16)}

\* check_set_new_hf on a state with next_hardfork = current_hardfork.next_fork().
QCheckSetNewHf ==
    /\ q = NoQuery
    /\ \E cur \in HardFork, lh \in QHeights, vs \in QVotes, win \in 1..MaxWindow :
         q' = [fn |-> "check_set_new_hf",
               current_hardfork |-> cur, next_hardfork |-> next_fork(cur),
               last_height |-> lh, votes |-> vs, window |-> win,
               out |-> check_set_new_hf(cur, next_fork(cur), lh, vs, win)]
    /\ UNCHANGED <<debug_build, wvars, hfvars>>

\* The counters of the HFVotes the evaluations below work on.
QCounters == IF q.fn = "HFVotes" THEN q.votes ELSE NoVotes

\* HFVotes::add_vote_for_hf on the counters.
QAddVoteForHf ==
    /\ q.fn \in {"none", "HFVotes"}
    /\ total_votes(QCounters) < MaxVotes
    /\ \E hf \in HardFork :
         q' = [fn |-> "HFVotes", votes |-> add_vote_for_hf(QCounters, hf)]
    /\ UNCHANGED <<debug_build, wvars, hfvars>>

\* HFVotes::remove_vote_for_hf on the counters, for a fork that has a vote.
QRemoveVoteForHf ==
    /\ q.fn = "HFVotes"
    /\ \E hf \in HardFork :
         /\ ~remove_vote_underflows(q.votes, hf)
         /\ q' = [fn |-> "HFVotes", votes |-> remove_vote_for_hf(q.votes, hf)]
    /\ UNCHANGED <<debug_build, wvars, hfvars>>

\* check_block_version_vote for a current fork and a block's version and vote.
QCheckBlockVersionVote ==
    /\ q = NoQuery
    /\ \E cur \in HardFork, version \in HardFork, vote \in HardFork :
         q' = [fn |-> "check_block_version_vote",
               current_hardfork |-> cur, version |-> version, vote |-> vote,
               out |-> check_block_version_vote(cur, [version |-> version, vote |-> vote])]
    /\ UNCHANGED <<debug_build, wvars, hfvars>>

\* BlockHFInfo::from_major_minor on the two version bytes of a header.
QFromMajorMinor ==
    /\ q = NoQuery
    /\ \E major_version \in U8, minor_version \in U8 :
         q' = [fn |-> "from_major_minor",
               major_version |-> major_version, minor_version |-> minor_version,
               out |-> from_major_minor(major_version, minor_version)]
    /\ UNCHANGED <<debug_build, wvars, hfvars>>

WIdle ==
    /\ w_db = <<>>
    /\ short_term_block_weights = <<>>
    /\ long_term_weights = <<>>
    /\ tip_height = 0
    /\ w_pc = "off"
    /\ w_result = "none"
    /\ w_pre = [short_term |-> <<>>, long_term |-> <<>>, tip_height |-> 0]
    /\ w_call = NoWCall
    /\ w_init_height = 0

\* A validated chain of `chain_height` blocks, of which the store model holds
\* the last win + 1.
ValidHFChains(chain_height, win) ==
    LET lo == saturating_sub(chain_height, win + 1)
        n == chain_height - lo
        block(height, up) ==
            LET version == ValidVersion(height)
            IN [version |-> version,
                vote |-> IF version + up \in VoteChoices(version)
                         THEN version + up ELSE version]
    IN {[lo |-> lo, blocks |-> [i \in 1..n |-> block(lo + i - 1, up[i])]] :
           up \in [1..n -> 0..1]}

HFIdle ==
    /\ hf_db = [lo |-> 0, blocks |-> <<>>]
    /\ window = 0
    /\ current_hardfork = 1
    /\ next_hardfork = {}
    /\ votes = NoVotes
    /\ last_height = 0
    /\ hf_pc = "off"
    /\ hf_result = "none"
    /\ hf_pre = [current_hardfork |-> 1, next_hardfork |-> {},
                 votes |-> NoVotes, last_height |-> 0]
    /\ hf_call = NoHFCall
    /\ hf_init_height = 0
    /\ hf_requests = {}

InitWeight ==
    /\ debug_build \in BOOLEAN
    /\ w_db \in UNION {[1..n -> BlockWeightInfo] : n \in 0..MaxHeight}
    /\ short_term_block_weights = <<>>
    /\ long_term_weights = <<>>
    /\ tip_height = 0
    /\ w_pc = "uninit"
    /\ w_result = "none"
    /\ w_pre = [short_term |-> <<>>, long_term |-> <<>>, tip_height |-> 0]
    /\ w_call = NoWCall
    /\ w_init_height = 0
    /\ HFIdle
    /\ q = NoQuery

NextWeight ==
    \/ WInitFromChainHeight
    \/ WNewBlockAdded
    \/ WBlockWeightsResponse
    \/ WBlockWeightsError
    \/ WCancelled
    \/ WEffectiveMedianBlockWeight

SpecWeight == InitWeight /\ [][NextWeight]_vars

InitHF ==
    /\ debug_build \in BOOLEAN
    /\ window \in 1..MaxWindow
    /\ \E chain_height \in HFInitHeights : hf_db \in ValidHFChains(chain_height, window)
    /\ current_hardfork = 1
    /\ next_hardfork = {}
    /\ votes = NoVotes
    /\ last_height = 0
    /\ hf_pc = "uninit"
    /\ hf_result = "none"
    /\ hf_pre = [current_hardfork |-> 1, next_hardfork |-> {},
                 votes |-> NoVotes, last_height |-> 0]
    /\ hf_call = NoHFCall
    /\ hf_init_height = 0
    /\ hf_requests = {}
    /\ WIdle
    /\ q = NoQuery

NextHF ==
    \/ HFInitFromChainHeight
    \/ HFNewBlock
    \/ HFBlockHFInfoResponse
    \/ HFBlockHFInfoError
    \/ HFCancelled

SpecHF == InitHF /\ [][NextHF]_vars

\* Either cache, for what is said of both.
\* The longest array handed to median.
MaxLen == 4

\* usize values at both ends of the range.
QEdgeValues == {0, 1, 2, USIZE_MAX - 2, USIZE_MAX - 1, USIZE_MAX}

\* The non-empty sorted arrays over the edge values.
QSortedArrays ==
    UNION {{a \in [1..n -> QEdgeValues] : IsSorted(a)} : n \in 1..MaxLen}

\* median on a non-empty sorted array.
QMedian ==
    /\ q = NoQuery
    /\ \E array \in QSortedArrays :
         q' = [fn |-> "median", array |-> array,
               out |-> [value |-> median(array), overflow |-> median_overflows(array)]]
    /\ UNCHANGED <<debug_build, wvars, hfvars>>

\* The longest window handed to the weight calculations.
MaxWindowLen == 2

\* Block weights below, at and above the penalty free zones and 50 times them.
QWeights == {10000, 100000, 300000, 400000, 16000000}

\* Short-term windows, in the order of the blocks.
QShortWindows == UNION {[1..n -> QWeights] : n \in 1..MaxWindowLen}

\* Long-term windows, sorted as the cache keeps them.
QLongWindows == {a \in QShortWindows : IsSorted(a)}

\* effective_median_block_weight on a cache holding the two windows.
QEffectiveMedianBlockWeight ==
    /\ q = NoQuery
    /\ \E hf \in HardFork, short_term \in QShortWindows, long_term \in QLongWindows :
         q' = [fn |-> "effective_median_block_weight",
               hf |-> hf, short_term |-> short_term, long_term |-> long_term,
               out |-> effective_median_block_weight(short_term, long_term, hf)]
    /\ UNCHANGED <<debug_build, wvars, hfvars>>

\* next_block_long_term_weight on a cache holding the long-term window.
QNextBlockLongTermWeight ==
    /\ q = NoQuery
    /\ \E hf \in HardFork, block_weight \in QWeights, long_term \in QLongWindows :
         q' = [fn |-> "next_block_long_term_weight",
               hf |-> hf, block_weight |-> block_weight, long_term |-> long_term,
               out |-> next_block_long_term_weight(long_term, hf, block_weight)]
    /\ UNCHANGED <<debug_build, wvars, hfvars>>

\* next_block_weight_limit on a cache holding the two windows.
QNextBlockWeightLimit ==
    /\ q = NoQuery
    /\ \E hf \in HardFork, short_term \in QShortWindows, long_term \in QLongWindows :
         q' = [fn |-> "next_block_weight_limit",
               hf |-> hf, short_term |-> short_term, long_term |-> long_term,
               out |-> next_block_weight_limit(short_term, long_term, hf)]
    /\ UNCHANGED <<debug_build, wvars, hfvars>>

InitFunctions ==
    /\ debug_build \in BOOLEAN
    /\ WIdle
    /\ HFIdle
    /\ q = NoQuery

NextFunctions ==
    \/ QCheckSetNewHf
    \/ QAddVoteForHf
    \/ QRemoveVoteForHf
    \/ QCheckBlockVersionVote
    \/ QFromMajorMinor
    \/ QMedian
    \/ QEffectiveMedianBlockWeight
    \/ QNextBlockLongTermWeight
    \/ QNextBlockWeightLimit

SpecFunctions == InitFunctions /\ [][NextFunctions]_vars

InitCaches == InitWeight \/ InitHF
NextCaches == NextWeight \/ NextHF
SpecCaches == InitCaches /\ [][NextCaches]_vars

(***************************************************************************)
(* Claims                                                                  *)
(***************************************************************************)
\* A call of the weight cache / hard-fork state that ended with the store's
\* error or with the future dropped.
WCallFailed == w_result \in {"store_error", "cancelled"}
HFCallFailed == hf_result \in {"store_error", "cancelled"}

\* C1: when the chain-store request of new_block_added fails or the call is
\* cancelled, short_term, long_term and tip_height equal their values before the call.
C1_WeightIngestAtomic == WCallFailed => WCache = w_pre

\* C2: when the chain-store request of new_block fails or the call is cancelled,
\* last_height, the vote counters, current_version and next_version equal their
\* values before the call.
C2_HardForkIngestAtomic == HFCallFailed => HFState = hf_pre

\* C3: a cache initialised at height 0 that ingested every block of the chain
\* has the short_term, long_term and tip_height of a cache initialised at the
\* chain's height.
C3_WeightRebuildEquivalence ==
    (w_init_height = 0 /\ w_result \in {"init", "ok"}) =>
        /\ short_term_block_weights = init_short_term_block_weights(w_db, Len(w_db))
        /\ long_term_weights = init_long_term_weights(w_db, Len(w_db))
        /\ tip_height = wrapping_sub_one(Len(w_db))

\* C3 witness: a cache built from height 0 has seen a block leave the long-term window.
C3_Witness ==
    /\ w_init_height = 0
    /\ w_result = "ok"
    /\ Len(w_db) > LONG_TERM_WINDOW
    /\ w_call.block_height = Len(w_db) - 1

\* The calls of the hard-fork state that end without a state for reasons the
\* claims leave aside: a store fault, a dropped future, a call out of height order.
HFExcused == hf_result \in {"pending", "store_error", "cancelled", "panic:height_order"}

\* C4: initialising at height 0 and ingesting every block of a valid chain
\* yields the current_version, next_version, last_height and vote counters of
\* the state initialised at the chain's height.
C4_HardForkRebuildEquivalence ==
    (hf_pc # "uninit" /\ hf_init_height = 0 /\ ~HFExcused) =>
        /\ hf_result \in {"init", "ok"}
        /\ hf_chain_height(hf_db) > 0 =>
               HFState = init_hard_fork_state(hf_db, hf_chain_height(hf_db), window)

\* Beside C4: from every chain height at which init does return a state (>= 1),
\* the state kept by successful ingests equals the state init builds at the
\* chain's height.
HardForkRebuildFromBuiltState ==
    hf_result \in {"init", "ok"} =>
        HFState = init_hard_fork_state(hf_db, hf_chain_height(hf_db), window)

\* C5: init on a fresh chain (chain height 0) succeeds with current_version V1
\* and an empty vote window, and requests no block the store does not hold.
C5_FreshChainInit ==
    (hf_pc # "uninit" /\ hf_init_height = 0 /\ hf_call = NoHFCall
        /\ hf_result # "store_error") =>
        /\ hf_result = "init"
        /\ current_hardfork = 1
        /\ total_votes(votes) = 0
        /\ \A h \in hf_requests : hf_block_exists(hf_db, h)

\* The versions whose activation height is reached and whose votes suffice.
Activated(lh, vs, win) ==
    {v \in HardFork : /\ fork_height(v, Mainnet) <= lh + 1
                      /\ votes_for_hf(vs, v) >= votes_needed(v, Mainnet, win)}

\* C6: after init and after every successful ingest, current_version is the
\* greatest version whose activation height is <= last_height + 1 and whose
\* votes meet the threshold, and next_version is current_version.next(), none
\* exactly at V16.
C6_CurrentVersionInvariant ==
    hf_result \in {"init", "ok"} =>
        /\ current_hardfork \in Activated(last_height, votes, window)
        /\ \A v \in Activated(last_height, votes, window) : v <= current_hardfork
        /\ next_hardfork = {v \in HardFork : v = current_hardfork + 1}
        /\ (next_hardfork = {}) <=> (current_hardfork = 16)

\* C6 witness: an ingest activated the last fork.
C6_Witness ==
    /\ hf_result = "ok"
    /\ hf_pre.current_hardfork = 15
    /\ current_hardfork = 16
    /\ next_hardfork = {}

\* C7 as stated: the ingest of the block at height 1009827 takes
\* current_version from V1 to V2 and leaves next_version at V3.
C7_ActivationAt1009827 ==
    (hf_result = "ok" /\ last_height = 1009827) =>
        /\ hf_pre.current_hardfork = 1
        /\ current_hardfork = 2
        /\ next_hardfork = {3}

\* C7 amended: the ingest of the block at height 1009826, after which the
\* chain height is 1009827, takes current_version from V1 to V2 and leaves
\* next_version at V3.
C7_ActivationAt1009826 ==
    (hf_result = "ok" /\ last_height = 1009826) =>
        /\ hf_pre.current_hardfork = 1
        /\ hf_pre.next_hardfork = {2}
        /\ current_hardfork = 2
        /\ next_hardfork = {3}

\* C7 witness: the block at height 1009826 was ingested.
C7_Witness ==
    /\ hf_result = "ok"
    /\ last_height = 1009826
    /\ hf_pre.last_height = 1009825
    /\ current_hardfork = 2

Min(a, b) == IF a <= b THEN a ELSE b

\* C8: after init and after every successful ingest the vote counters sum to
\* min(last_height + 1, window).
C8_VoteWindowSize ==
    hf_result \in {"init", "ok"} =>
        total_votes(votes) = Min(last_height + 1, window)

\* C8 witness: an ingest evicted a vote from a full window whose chain is
\* longer than the window.
C8_Witness ==
    /\ hf_result = "ok"
    /\ hf_requests # {}
    /\ last_height + 1 > window
    /\ total_votes(votes) = window

\* C9: after init and after every successful new_block_added, short_term holds
\* at most SHORT_TERM_WINDOW and long_term at most LONG_TERM_WINDOW weights.
C9_WindowSizeBound ==
    w_result \in {"init", "ok"} =>
        /\ Len(short_term_block_weights) <= SHORT_TERM_WINDOW
        /\ Len(long_term_weights) <= LONG_TERM_WINDOW

\* C9 witness: both windows are full after an ingest that evicted from both.
C9_Witness ==
    /\ w_result = "ok"
    /\ Len(w_db) > LONG_TERM_WINDOW
    /\ Len(w_db) > SHORT_TERM_WINDOW
    /\ Len(short_term_block_weights) = SHORT_TERM_WINDOW
    /\ Len(long_term_weights) = LONG_TERM_WINDOW

\* C10: long_term is non-decreasing in every state, the one between the
\* insert and the removal of new_block_added included.
C10_LongTermSorted == IsSorted(long_term_weights)

\* C10 witness: between the insert and the removal the list holds different
\* weights and the new weight went below the greatest.
C10_Witness ==
    /\ w_pc = "awaiting"
    /\ Len(long_term_weights) = LONG_TERM_WINDOW + 1
    /\ w_call.long_term_weight < long_term_weights[Len(long_term_weights)]

\* C11: an ingest whose height is not the last ingested height + 1 halts either
\* cache with the assertion failure, with every field as it was before the call
\* and no chain-store request issued.
C11_HeightOrderPrecondition ==
    /\ (w_call # NoWCall /\ w_call.block_height # wrapping_add_one(w_pre.tip_height)) =>
           /\ w_result = "panic:height_order"
           /\ w_pc = "stopped"
           /\ WCache = w_pre
           /\ w_call.requests = {}
    /\ (hf_call.called /\ hf_call.height # wrapping_add_one(hf_pre.last_height)) =>
           /\ hf_result = "panic:height_order"
           /\ hf_pc = "stopped"
           /\ HFState = hf_pre
           /\ hf_requests = {}

\* C11 witness: new_block was called with a gap after a block was ingested,
\* on a full vote window (a correct height would have fetched).
C11_Witness ==
    /\ hf_result = "panic:height_order"
    /\ hf_call.height = last_height + 2
    /\ last_height > hf_init_height - 1
    /\ total_votes(votes) = window

\* C12: check_set_new_hf stops at a fixed point: a second run on the state it
\* returned changes neither the current nor the next fork, and the next fork it
\* leaves is none or one whose activation condition is false.
C12_ActivationFixedPoint ==
    q.fn = "check_set_new_hf" =>
        /\ check_set_new_hf(q.out.current_hardfork, q.out.next_hardfork,
                            q.last_height, q.votes, q.window) = q.out
        /\ \/ q.out.next_hardfork = {}
           \/ \A nxt \in q.out.next_hardfork :
                  ~(/\ q.last_height + 1 >= fork_height(nxt, Mainnet)
                    /\ votes_for_hf(q.votes, nxt) >= votes_needed(nxt, Mainnet, q.window))
        /\ q.out.next_hardfork = next_fork(q.out.current_hardfork)

C12_Witness ==
    /\ q.fn = "check_set_new_hf"
    /\ q.out.current_hardfork >= q.current_hardfork + 2
    /\ q.out.next_hardfork # {}
    /\ total_votes(q.votes) > 0

\* The sum of the counters vs over the versions in the set S.
RECURSIVE CounterSum(_, _)
CounterSum(vs, S) ==
    IF S = {} THEN 0
    ELSE LET v == CHOOSE x \in S : TRUE IN vs[v] + CounterSum(vs, S \ {v})

\* C13: votes_for_hf(V) is the sum of the counters of the versions >= V, so it
\* does not increase as V rises and votes_for_hf(V1) is total_votes.
C13_VoteRollup ==
    q.fn = "HFVotes" =>
        /\ \A hf \in HardFork :
               votes_for_hf(q.votes, hf) = CounterSum(q.votes, {v \in HardFork : v >= hf})
        /\ \A hf \in HardFork \ {16} :
               votes_for_hf(q.votes, hf + 1) <= votes_for_hf(q.votes, hf)
        /\ votes_for_hf(q.votes, 1) = total_votes(q.votes)
        /\ total_votes(q.votes) = CounterSum(q.votes, HardFork)

C13_Witness ==
    /\ q.fn = "HFVotes"
    /\ q.votes[3] > 0
    /\ votes_for_hf(q.votes, 4) > 0
    /\ votes_for_hf(q.votes, 4) < votes_for_hf(q.votes, 3)
    /\ votes_for_hf(q.votes, 3) < total_votes(q.votes)

\* C14: check_block_version_vote is true exactly when the block's version is the
\* current fork and its vote is not below the current fork; the call leaves the
\* hard-fork state as it was.
C14_CheckBlockVersionVote ==
    q.fn = "check_block_version_vote" =>
        /\ q.out = TRUE <=> (q.version = q.current_hardfork /\ ~(q.vote < q.current_hardfork))
        /\ q.out \in BOOLEAN
        /\ HFIdle

C14_Witness ==
    /\ q.fn = "check_block_version_vote"
    /\ q.out
    /\ q.version = q.current_hardfork
    /\ q.vote = q.current_hardfork
    /\ q.current_hardfork > 1

\* C19: from_major_minor fails exactly when the major byte is not in 1..16; the
\* minor byte never fails: 0 becomes V1, 1..16 that version, anything else V16.
C19_HeaderDecoding ==
    q.fn = "from_major_minor" =>
        /\ q.out.err <=> q.major_version \notin 1..16
        /\ ~q.out.err =>
               /\ q.out.version = q.major_version
               /\ q.minor_version = 0 => q.out.vote = 1
               /\ q.minor_version \in 1..16 => q.out.vote = q.minor_version
               /\ q.minor_version > 16 => q.out.vote = 16

C19_Witness ==
    /\ q.fn = "from_major_minor"
    /\ ~q.out.err
    /\ q.minor_version = 0
    /\ q.out.vote = 1
    /\ q.out.version = 16

\* C15: on a non-empty sorted array of length n, median is the only element if
\* n = 1, the middle element if n is odd, and otherwise floor((x + y) / 2) of the
\* two middle elements x <= y, which lies between them and is computed with no
\* intermediate result above the largest usize; the two largest values give the
\* smaller of them.
C15_MedianParity ==
    q.fn = "median" =>
        LET n == Len(q.array)
            x == q.array[n \div 2]
            y == q.array[n \div 2 + 1]
        IN /\ n = 1 => q.out.value = q.array[1]
           /\ (n > 1 /\ n % 2 = 1) => q.out.value = q.array[(n + 1) \div 2]
           /\ n % 2 = 0 =>
                  /\ q.out.value = (x + y) \div 2
                  /\ x <= q.out.value /\ q.out.value <= y
           /\ ~q.out.overflow
           /\ q.array = <<USIZE_MAX - 1, USIZE_MAX>> => q.out.value = USIZE_MAX - 1

C15_Witness ==
    /\ q.fn = "median"
    /\ q.array = <<USIZE_MAX - 1, USIZE_MAX>>
    /\ q.out.value = USIZE_MAX - 1
    /\ ~q.out.overflow

\* The larger and the smaller of two numbers.
Larger(a, b) == IF a < b THEN b ELSE a

Smaller(a, b) == IF b < a THEN b ELSE a

\* The zone below which a block pays no penalty: 20000 at V1, 60000 from V2 to
\* V4, 300000 from V5.
ZoneOf(hf) == IF hf = 1 THEN 20000 ELSE IF hf \in 2..4 THEN 60000 ELSE 300000

\* C16: with sm the median of the sorted short-term window and lm the larger of
\* the long-term median and 300000, the effective median is sm for V1..V9,
\* max(min(max(300000, sm), 50 lm), zone) for V10..V14 and
\* max(min(max(lm, sm), 50 lm), zone) for V15 and V16.
C16_EffectiveMedianPerFork ==
    q.fn = "effective_median_block_weight" =>
        LET sm == median(sort_unstable(q.short_term))
            lm == Larger(median(q.long_term), 300000)
        IN /\ q.hf \in 1..9 => q.out = sm
           /\ q.hf \in 10..14 =>
                  q.out = Larger(Smaller(Larger(300000, sm), 50 * lm), ZoneOf(q.hf))
           /\ q.hf \in 15..16 =>
                  q.out = Larger(Smaller(Larger(lm, sm), 50 * lm), ZoneOf(q.hf))

\* C16 witness: at V15 the long-term median is above the short-term median.
C16_Witness ==
    /\ q.fn = "effective_median_block_weight"
    /\ q.hf = 15
    /\ q.short_term = <<100000, 10000>>
    /\ q.long_term = <<400000>>
    /\ q.out = 400000

\* C17: with ltm the larger of the zone and the long-term median, the next
\* block's long-term weight is w for V1..V9, min(ltm + ltm*2/5, w) for V10..V14
\* and min(ltm + ltm*7/10, max(w, ltm*10/17)) for V15 and V16, the divisions
\* truncating: V16 with w = 10000 and ltm = 300000 gives 176470.
C17_NextBlockLongTermWeight ==
    q.fn = "next_block_long_term_weight" =>
        LET ltm == Larger(ZoneOf(q.hf), median(q.long_term))
            w == q.block_weight
        IN /\ q.hf \in 1..9 => q.out = w
           /\ q.hf \in 10..14 => q.out = Smaller(ltm + (ltm * 2) \div 5, w)
           /\ q.hf \in 15..16 =>
                  q.out = Smaller(ltm + (ltm * 7) \div 10, Larger(w, (ltm * 10) \div 17))
           /\ (q.hf = 16 /\ w = 10000 /\ ltm = 300000) => q.out = 176470

C17_Witness ==
    /\ q.fn = "next_block_long_term_weight"
    /\ q.hf = 16
    /\ q.block_weight = 10000
    /\ q.long_term = <<100000, 300000>>
    /\ q.out = 176470

\* C18: for every fork and every non-empty short-term window the block weight
\* limit is twice the effective median.
C18_LimitIsTwiceMedian ==
    q.fn = "next_block_weight_limit" =>
        (Len(q.short_term) > 0 =>
            q.out = 2 * effective_median_block_weight(q.short_term, q.long_term, q.hf))

C18_Witness ==
    /\ q.fn = "next_block_weight_limit"
    /\ q.hf = 10
    /\ q.short_term = <<16000000, 16000000>>
    /\ q.long_term = <<100000>>
    /\ q.out = 30000000

\* The votes of the blocks of the chain store at the heights lo..hi, counted per fork.
VotesOfBlocks(lo, hi) ==
    [v \in HardFork |-> Cardinality({h \in lo..hi : BlockHFInfo(hf_db, h).vote = v})]

\* C20: after init and after every successful ingest the vote counters are the
\* tally of the votes of the blocks at the last `window` heights up to
\* last_height; an ingest at height h requests the block at h - window, and only
\* it, when h >= window, and requests nothing from the chain store otherwise.
C20_VoteWindowContents ==
    /\ hf_result \in {"init", "ok"} =>
           votes = VotesOfBlocks(IF last_height + 1 > window
                                 THEN last_height + 1 - window ELSE 0, last_height)
    /\ (hf_call.called /\ hf_result \in {"ok", "pending", "store_error", "cancelled"}) =>
           hf_requests = IF hf_call.height >= window
                         THEN {hf_call.height - window} ELSE {}

\* C20 witness: a successful ingest evicted a vote that differs from the one it added.
C20_Witness ==
    /\ hf_result = "ok"
    /\ window >= 2
    /\ hf_requests = {hf_call.height - window}
    /\ BlockHFInfo(hf_db, hf_call.height - window).vote # hf_call.vote
    /\ \E v \in HardFork : votes[v] > 0 /\ votes[v] < window

\* How often the weight w occurs in the list s.
Occurrences(s, w) == Cardinality({i \in 1..Len(s) : s[i] = w})

\* How many blocks of the chain store at the heights lo..hi have the long-term weight w.
BlocksWithLongTermWeight(lo, hi, w) ==
    Cardinality({k \in lo..hi : BlockWeights(w_db, k).long_term_weight = w})

\* C21: with a chain store that returns the long-term weight each block was
\* loaded or ingested with, the weight of block h - LONG_TERM_WINDOW is always
\* found; an ingest at h >= LONG_TERM_WINDOW requests that block and removes one
\* occurrence of its weight, an ingest below removes nothing, and afterwards
\* long_term is the sorted multiset of the long-term weights of the last
\* LONG_TERM_WINDOW heights up to h.
C21_LongTermEviction ==
    /\ w_result # "panic:expect"
    /\ w_result = "ok" =>
           LET h == w_call.block_height
               lo == IF h >= LONG_TERM_WINDOW - 1 THEN h - (LONG_TERM_WINDOW - 1) ELSE 0
           IN /\ IsSorted(long_term_weights)
              /\ Len(long_term_weights) = h - lo + 1
              /\ \A w \in 1..MaxWeight :
                     Occurrences(long_term_weights, w) = BlocksWithLongTermWeight(lo, h, w)
              /\ h >= LONG_TERM_WINDOW =>
                     /\ w_call.requests = {h - LONG_TERM_WINDOW}
                     /\ Len(long_term_weights) = Len(w_pre.long_term)
              /\ h < LONG_TERM_WINDOW =>
                     /\ w_call.requests = {}
                     /\ Len(long_term_weights) = Len(w_pre.long_term) + 1

\* C21 witness: the evicted weight differs from the ingested one and occurs in
\* the list once more after one occurrence was removed.
C21_Witness ==
    /\ w_result = "ok"
    /\ w_call.block_height >= LONG_TERM_WINDOW
    /\ w_call.requests = {w_call.block_height - LONG_TERM_WINDOW}
    /\ BlockWeights(w_db, w_call.height_to_remove).long_term_weight # w_call.long_term_weight
    /\ Occurrences(long_term_weights,
                   BlockWeights(w_db, w_call.height_to_remove).long_term_weight) > 0
    /\ Occurrences(long_term_weights, w_call.long_term_weight) > 0

\* The block weights of the last `count` blocks of the chain store, oldest first.
LastBlockWeights(count) ==
    [i \in 1..count |-> BlockWeights(w_db, Len(w_db) - count + i - 1).block_weight]

\* C22: after init and after every successful ingest of block h, tip_height is
\* h and short_term holds the block weights of the last SHORT_TERM_WINDOW
\* heights up to h, oldest first; a median query leaves it in that order.
C22_ShortTermFifo ==
    w_result \in {"init", "ok"} =>
        /\ Len(w_db) >= 1 => tip_height = Len(w_db) - 1
        /\ w_result = "ok" => tip_height = w_call.block_height
        /\ short_term_block_weights =
               LastBlockWeights(IF Len(w_db) >= SHORT_TERM_WINDOW
                                THEN SHORT_TERM_WINDOW ELSE Len(w_db))

\* C22 witness: the ingest evicted the oldest weight, which was not the
\* smallest, and the window it left is not in sorted order.
C22_Witness ==
    /\ w_result = "ok"
    /\ Len(w_db) > SHORT_TERM_WINDOW
    /\ Len(short_term_block_weights) = SHORT_TERM_WINDOW
    /\ ~IsSorted(short_term_block_weights)
    /\ BlockWeights(w_db, Len(w_db) - SHORT_TERM_WINDOW - 1).block_weight
           > short_term_block_weights[Len(short_term_block_weights)]

\* A step in which a call of new_block returns Ok: at once, or after the last
\* answer of the chain store.
HFNewBlockReturnsOk ==
    /\ hf_result' = "ok"
    /\ hf_pc = "awaiting" \/ (hf_pc = "idle" /\ last_height' # last_height)

\* C23: once the state is initialised no step lowers current_version or
\* last_height, and a call of new_block that returns Ok leaves last_height
\* exactly 1 above its value at the start of the call and current_version at or
\* above it.
C23_ForwardOnly ==
    [][/\ hf_pc \in {"idle", "awaiting"} =>
              /\ current_hardfork' >= current_hardfork
              /\ last_height' \in {last_height, last_height + 1}
       /\ HFNewBlockReturnsOk =>
              /\ last_height' = hf_pre'.last_height + 1
              /\ hf_call'.height = last_height'
              /\ current_hardfork' >= hf_pre'.current_hardfork]_vars

\* C23 witness: new_block returned Ok after an eviction, the current fork is
\* above V1 and was current before the call, and votes below it are in the window.
C23_Witness ==
    /\ hf_result = "ok"
    /\ hf_requests # {}
    /\ current_hardfork > 1
    /\ hf_pre.current_hardfork = current_hardfork
    /\ last_height = hf_pre.last_height + 1
    /\ votes_for_hf(votes, current_hardfork) < total_votes(votes)
====
